---- MODULE Spec2Model ----
(***************************************************************************)
(* Model of src/app.py: the Flask chat relay.  The state is the two        *)
(* module globals (conversation_history, access_token) plus, for each      *)
(* /chat request thread, its locals and its position in chat_route and     *)
(* call_chat_api.  Each action is one step of a request thread between     *)
(* two accesses to shared state; threads interleave at those points.       *)
(***************************************************************************)
EXTENDS Integers, Sequences, FiniteSets, TLC

(* ---- bounds of the model ---- *)
NumReq == 2        \* number of /chat requests served (all may overlap)
MaxFail == 1       \* failed upstream attempts allowed among overlapping calls
MaxRetry == 3      \* failed upstream attempts allowed per call, requests one at a time

Req == 1..NumReq

(* ---- values ---- *)
None == "None"                         \* Python None
DefaultSearch == "123"                 \* app.py:231 and app.py:243
NoMessagesReply == "No messages in API response."    \* app.py:118
Greeting == "Hi, Be formal, courteous, and clear in your responses."  \* app.py:32,272
UserInputs == {"", "hi"}               \* form field "message" after strip()
UpContents == {"X", None}         \* content of the message the upstream adds
Free == 0                              \* token_lock not held
NoToken == <<>>                        \* an empty token slot: "not token" holds
IssuedToken(r) == <<"token", r>>       \* each successful acquisition issues a fresh token
FailKinds == {"non200", "exception", "unparseable"}

Msg(i, r, c) == [id |-> i, role |-> r, content |-> c]
UserId(n) == <<"user", n>>             \* f"user-{n}"
AssistantId(n) == <<"assistant", n>>   \* f"assistant-{n}"
SystemId == <<"system", 1>>            \* "system-001"
UpId == <<"upstream", 0>>              \* id of a message the upstream created

Last(s) == s[Len(s)]

VARIABLES
  conversation_history,  \* app.py:95, the shared list
  access_token,          \* app.py:42, the shared token slot
  token_lock,            \* app.py:43, the request holding the lock (Free when none)
  pc,                    \* position of each request thread
  user_message,          \* chat_route local
  new_id,                \* the id evaluated for the user message to append
  payload,               \* chat_route local (chatHistory aliases the shared list)
  token,                 \* chat_route local
  sent,                  \* the chatHistory.messages serialised by the latest attempt
  attempts,              \* number of requests.post attempts of the call
  fails,                 \* number of attempts that ended without a reply
  delays,                \* number of time.sleep(5) taken
  acquired,              \* number of get_access_token invocations by the request
  last_body,             \* the upstream body that ended the call
  reply,                 \* call_chat_api local / chat_route local
  outcome,               \* how the latest attempt of the call ended (what it logged)
  response               \* the JSON response of the request

vars == <<conversation_history, access_token, token_lock, pc, user_message, new_id, payload,
          token, sent, attempts, fails, delays, acquired, last_body, reply,
          outcome, response>>

Init ==
  /\ conversation_history = <<>>
  /\ access_token = NoToken
  /\ token_lock = Free
  /\ pc = [r \in Req |-> "idle"]
  /\ user_message = [r \in Req |-> None]
  /\ new_id = [r \in Req |-> None]
  /\ payload = [r \in Req |-> None]
  /\ token = [r \in Req |-> NoToken]
  /\ sent = [r \in Req |-> None]
  /\ attempts = [r \in Req |-> 0]
  /\ fails = [r \in Req |-> 0]
  /\ delays = [r \in Req |-> 0]
  /\ acquired = [r \in Req |-> 0]
  /\ last_body = [r \in Req |-> None]
  /\ reply = [r \in Req |-> None]
  /\ outcome = [r \in Req |-> None]
  /\ response = [r \in Req |-> None]

(* ---- chat_route, lines 221-238: read the form, decide on the append ---- *)
(* variant: the default is appended whatever the history holds *)
AppendDecisionAlwaysDefault(m, hist) ==
  IF m # "" THEN "append_user" ELSE "append_default"

AppendDecision(m, hist) ==
  IF m # "" THEN "append_user"
  ELSE IF hist = <<>> THEN "append_default"
  ELSE "build"

(* serial: the server handles one request at a time *)
Quiet(r) == \A q \in Req \ {r} : pc[q] \in {"idle", "done", "failed"}

Receive(r, serial) ==
  /\ pc[r] = "idle"
  /\ \A q \in Req : q < r => pc[q] # "idle"     \* requests are numbered in arrival order
  /\ serial => Quiet(r)
  /\ \E m \in UserInputs :
       /\ user_message' = [user_message EXCEPT ![r] = m]
       /\ pc' = [pc EXCEPT ![r] = AppendDecision(m, conversation_history)]
  /\ new_id' = [new_id EXCEPT ![r] = UserId(Len(conversation_history) + 1)]
  /\ UNCHANGED <<conversation_history, access_token, token_lock, payload, token, sent,
                 attempts,
                 fails, delays, acquired, last_body, reply, response,
                 outcome>>

AppendUser(r) ==
  /\ pc[r] = "append_user"
  /\ conversation_history' =
       Append(conversation_history, Msg(new_id[r], "user", user_message[r]))
  /\ pc' = [pc EXCEPT ![r] = "build"]
  /\ UNCHANGED <<access_token, token_lock, user_message, new_id, payload, token, sent, attempts,
                 fails, delays, acquired, last_body, reply, response,
                 outcome>>

AppendDefault(r) ==
  /\ pc[r] = "append_default"
  /\ conversation_history' =
       Append(conversation_history, Msg(new_id[r], "user", DefaultSearch))
  /\ user_message' = [user_message EXCEPT ![r] = DefaultSearch]
  /\ pc' = [pc EXCEPT ![r] = "build"]
  /\ UNCHANGED <<access_token, token_lock, new_id, payload, token, sent, attempts,
                 fails, delays, acquired, last_body, reply, response,
                 outcome>>

(* ---- chat_route, lines 240-250: the payload; its chatHistory.messages is ---- *)
(* ---- the shared list object itself, recorded here as a reference          ---- *)
BuildPayloadValue ==
  [dataSearchKey |-> "CaseNumber", Search |-> "123", SearchMode |-> "all",
   messages |-> "ref:conversation_history", MaxNumberOfRows |-> 5000]

BuildPayload(r) ==
  /\ pc[r] = "build"
  /\ payload' = [payload EXCEPT ![r] = BuildPayloadValue]
  /\ pc' = [pc EXCEPT ![r] = "lock_lookup"]
  /\ UNCHANGED <<conversation_history, access_token, token_lock, user_message, new_id, token, sent,
                 attempts, fails, delays, acquired, last_body, reply, response,
                 outcome>>

(* ---- chat_route, lines 253-259: the token slot ---- *)
(* "with token_lock:" at line 253 and at line 258: blocks while another holds it *)
EnterLock(r, at, to) ==
  /\ pc[r] = at
  /\ token_lock = Free
  /\ token_lock' = r
  /\ pc' = [pc EXCEPT ![r] = to]
  /\ UNCHANGED <<conversation_history, access_token, user_message, new_id, payload, token,
                 sent, attempts, fails, delays, acquired, last_body, reply, response,
                 outcome>>

LockForLookup(r) == EnterLock(r, "lock_lookup", "lookup")

(* variant: the cached token is ignored and a token is always acquired *)
LookupTokenIgnoringCache(r) ==
  /\ pc[r] = "lookup"
  /\ token' = [token EXCEPT ![r] = NoToken]
  /\ token_lock' = Free
  /\ pc' = [pc EXCEPT ![r] = "acquire"]
  /\ UNCHANGED <<conversation_history, access_token, user_message, new_id, payload, sent,
                 attempts, fails, delays, acquired, last_body, reply, response,
                 outcome>>

(* variant: on a miss the lock is kept while the token is acquired *)
LookupTokenKeepingLock(r) ==
  /\ pc[r] = "lookup"
  /\ token' = [token EXCEPT ![r] = access_token]
  /\ token_lock' = IF access_token = NoToken THEN r ELSE Free
  /\ pc' = [pc EXCEPT ![r] = IF access_token = NoToken THEN "acquire" ELSE "send"]
  /\ UNCHANGED <<conversation_history, access_token, user_message, new_id, payload, sent,
                 attempts, fails, delays, acquired, last_body, reply, response, outcome>>

(* line 254 read under the lock, the lock released on leaving the block, line 255 *)
LookupToken(r) ==
  /\ pc[r] = "lookup"
  /\ token' = [token EXCEPT ![r] = access_token]
  /\ token_lock' = Free
  /\ pc' = [pc EXCEPT ![r] = IF access_token = NoToken THEN "acquire" ELSE "send"]
  /\ UNCHANGED <<conversation_history, access_token, user_message, new_id, payload, sent,
                 attempts, fails, delays, acquired, last_body, reply, response,
                 outcome>>

(* get_access_token, lines 64-90: returns a token or raises *)
AcquireOk(r) ==
  /\ pc[r] = "acquire"
  /\ token' = [token EXCEPT ![r] = IssuedToken(r)]
  /\ acquired' = [acquired EXCEPT ![r] = @ + 1]
  /\ pc' = [pc EXCEPT ![r] = "lock_store"]
  /\ UNCHANGED <<conversation_history, access_token, token_lock, user_message, new_id, payload, sent,
                 attempts, fails, delays, last_body, reply, response,
                 outcome>>

(* variant: the acquisition error is swallowed and the request carries on *)
AcquireFailSwallowed(r) ==
  /\ pc[r] = "acquire"
  /\ acquired' = [acquired EXCEPT ![r] = @ + 1]
  /\ pc' = [pc EXCEPT ![r] = "lock_store"]
  /\ UNCHANGED <<conversation_history, access_token, token_lock, user_message, new_id, payload, token,
                 sent, attempts, fails, delays, last_body, reply, response,
                 outcome>>

(* variant: the auth abort takes the request's appended message back *)
AcquireFailRollback(r) ==
  /\ pc[r] = "acquire"
  /\ acquired' = [acquired EXCEPT ![r] = @ + 1]
  /\ pc' = [pc EXCEPT ![r] = "failed"]
  /\ response' = [response EXCEPT ![r] = [status |-> 500, error |-> "auth"]]
  /\ conversation_history' =
       IF conversation_history = <<>> THEN conversation_history
       ELSE SubSeq(conversation_history, 1, Len(conversation_history) - 1)
  /\ UNCHANGED <<access_token, token_lock, user_message, new_id, payload, token,
                 sent, attempts, fails, delays, last_body, reply, outcome>>

AcquireFail(r) ==
  /\ pc[r] = "acquire"
  /\ acquired' = [acquired EXCEPT ![r] = @ + 1]
  /\ pc' = [pc EXCEPT ![r] = "failed"]
  /\ response' = [response EXCEPT ![r] = [status |-> 500, error |-> "auth"]]
  /\ UNCHANGED <<conversation_history, access_token, token_lock, user_message, new_id, payload, token,
                 sent, attempts, fails, delays, last_body, reply,
                 outcome>>

(* variant: the slot is written without taking the lock *)
LockForStoreSkipped(r) ==
  /\ pc[r] = "lock_store"
  /\ pc' = [pc EXCEPT ![r] = "store"]
  /\ UNCHANGED <<conversation_history, access_token, token_lock, user_message, new_id,
                 payload, token, sent, attempts, fails, delays, acquired, last_body, reply,
                 response, outcome>>

LockForStore(r) == EnterLock(r, "lock_store", "store")

(* line 259 written under the lock, the lock released on leaving the block *)
StoreToken(r) ==
  /\ pc[r] = "store"
  /\ access_token' = token[r]
  /\ token_lock' = Free
  /\ pc' = [pc EXCEPT ![r] = "send"]
  /\ UNCHANGED <<conversation_history, user_message, new_id, payload, token, sent,
                 attempts, fails, delays, acquired, last_body, reply, response,
                 outcome>>

(* ---- call_chat_api, line 108: json.dumps(payload) and the POST ---- *)
(* json.dumps(payload) at each attempt: the payload holds the shared list object,
   so what is serialised is the list's content at that moment *)
SerializedMessages(p, hist) ==
  IF p.messages = "ref:conversation_history" THEN hist ELSE p.messages

Send(r) ==
  /\ pc[r] = "send"
  /\ sent' = [sent EXCEPT ![r] = SerializedMessages(payload[r], conversation_history)]
  /\ attempts' = [attempts EXCEPT ![r] = @ + 1]
  /\ pc' = [pc EXCEPT ![r] = "wait"]
  /\ UNCHANGED <<conversation_history, access_token, token_lock, user_message, new_id, payload, token,
                 fails, delays, acquired, last_body, reply, response,
                 outcome>>

(* ---- call_chat_api, lines 121-124: non-200, exception, unparseable body ---- *)
FailedAttemptReply(k) == None    \* reply stays None on every failure path
RECURSIVE SumFails(_, _)
SumFails(f, S) == IF S = {} THEN 0 ELSE LET q == CHOOSE x \in S : TRUE
                                        IN f[q] + SumFails(f, S \ {q})
FailsInFlight == SumFails(fails, Req)

(* variant: a failed attempt takes back the last message of the store *)
RecvFailRollback(r, limit) ==
  /\ pc[r] = "wait"
  /\ FailsInFlight < limit
  /\ \E k \in FailKinds :
       /\ reply' = [reply EXCEPT ![r] = FailedAttemptReply(k)]
       /\ outcome' = [outcome EXCEPT ![r] = k]
  /\ conversation_history' =
       SubSeq(conversation_history, 1, Len(conversation_history) - 1)
  /\ fails' = [fails EXCEPT ![r] = @ + 1]
  /\ pc' = [pc EXCEPT ![r] = "sleep"]
  /\ UNCHANGED <<access_token, token_lock, user_message, new_id,
                 payload, token, sent, attempts, delays, acquired, last_body, response>>

(* variant: a failed attempt is not caught and ends the request *)
RecvFailRaises(r, limit) ==
  /\ pc[r] = "wait"
  /\ FailsInFlight < limit
  /\ fails' = [fails EXCEPT ![r] = @ + 1]
  /\ pc' = [pc EXCEPT ![r] = "failed"]
  /\ response' = [response EXCEPT ![r] = [status |-> 500, error |-> "upstream"]]
  /\ UNCHANGED <<conversation_history, access_token, token_lock, user_message, new_id, payload, token,
                 sent, attempts, delays, acquired, last_body, reply,
                 outcome>>

RecvFail(r, limit) ==
  /\ pc[r] = "wait"
  /\ FailsInFlight < limit
  /\ \E k \in FailKinds :
       /\ reply' = [reply EXCEPT ![r] = FailedAttemptReply(k)]
       /\ outcome' = [outcome EXCEPT ![r] = k]
  /\ fails' = [fails EXCEPT ![r] = @ + 1]
  /\ pc' = [pc EXCEPT ![r] = "sleep"]
  /\ UNCHANGED <<conversation_history, access_token, token_lock, user_message, new_id,
                 payload, token, sent, attempts, delays, acquired, last_body, response>>

(* ---- call_chat_api, lines 110-120: a 200 response with a JSON body ---- *)
UpMsg(c) == Msg(UpId, "assistant", c)

(* has: the body carries chatHistory.messages; iterable: its value is a list
   (FALSE for JSON null, which line 113 reads as None) *)
Body(h, it, msgs) == [kind |-> "200", has |-> h, iterable |-> it, messages |-> msgs]

EchoBodies(r, contents) == {Body(TRUE, TRUE, Append(sent[r], UpMsg(c))) : c \in contents}

Bodies(r) ==
  {Body(FALSE, TRUE, <<>>), Body(TRUE, TRUE, <<>>), Body(TRUE, FALSE, <<>>)}
  \cup EchoBodies(r, UpContents)

ExtractMessages(body) == IF body.has THEN body.messages ELSE <<>>

ExtractReply(body) ==
  LET messages == ExtractMessages(body)
  IN IF messages # <<>> THEN Last(messages).content ELSE NoMessagesReply

(* line 120: the slice assignment raises TypeError on a value that is no iterable;
   the exception is caught at line 123 with reply already set *)
OverwriteRaises(body) == body.has /\ ~body.iterable

ReplaceHistory(body, hist) ==
  IF body.has /\ ~OverwriteRaises(body) THEN body.messages ELSE hist

AttemptOutcome(body) == IF OverwriteRaises(body) THEN "exception" ELSE "200"

Recv200From(r, limit, bodies) ==
  /\ pc[r] = "wait"
  /\ \E body \in bodies :
       /\ ExtractReply(body) = None => FailsInFlight < limit
       /\ last_body' = [last_body EXCEPT ![r] = IF ExtractReply(body) = None THEN @ ELSE body]
       /\ reply' = [reply EXCEPT ![r] = ExtractReply(body)]
       /\ outcome' = [outcome EXCEPT ![r] = AttemptOutcome(body)]
       /\ conversation_history' = ReplaceHistory(body, conversation_history)
       /\ fails' = [fails EXCEPT ![r] = IF ExtractReply(body) = None THEN @ + 1 ELSE @]
       /\ pc' = [pc EXCEPT ![r] = IF ExtractReply(body) = None THEN "sleep" ELSE "check_system"]
  /\ UNCHANGED <<access_token, token_lock, user_message, new_id, payload, token, sent,
                 attempts, delays, acquired, response>>

Recv200(r, limit) == Recv200From(r, limit, Bodies(r))

(* the upstream that answers with the list it was sent plus one assistant message *)
RecvEcho(r) == Recv200From(r, 0, EchoBodies(r, {"X"}))

(* ---- call_chat_api, lines 125-127 ---- *)
(* variant: the loop gives up after a maximum number of attempts *)
SleepGivingUp(r) ==
  /\ pc[r] = "sleep"
  /\ delays' = [delays EXCEPT ![r] = @ + 1]
  /\ outcome' = [outcome EXCEPT ![r] = None]
  /\ pc' = [pc EXCEPT ![r] = IF delays[r] >= 1 THEN "failed" ELSE "send"]
  /\ UNCHANGED <<conversation_history, access_token, token_lock, user_message, new_id,
                 payload, token, sent, attempts, fails, acquired, last_body, reply, response>>

Sleep(r) ==
  /\ pc[r] = "sleep"
  /\ delays' = [delays EXCEPT ![r] = @ + 1]
  /\ outcome' = [outcome EXCEPT ![r] = None]
  /\ pc' = [pc EXCEPT ![r] = "send"]
  /\ UNCHANGED <<conversation_history, access_token, token_lock, user_message, new_id,
                 payload, token, sent, attempts, fails, acquired, last_body, reply, response>>

(* ---- chat_route, lines 270-279: the system preamble ---- *)
HasSystem(hist) == \E i \in 1..Len(hist) : hist[i].role = "system"

CheckSystem(r) ==
  /\ pc[r] = "check_system"
  /\ pc' = [pc EXCEPT ![r] = IF HasSystem(conversation_history)
                              THEN "check_assistant" ELSE "append_system"]
  /\ UNCHANGED <<conversation_history, access_token, token_lock, user_message, new_id, payload, token,
                 sent, attempts, fails, delays, acquired, last_body, reply, response,
                 outcome>>

AppendSystem(r) ==
  /\ pc[r] = "append_system"
  /\ conversation_history' = Append(conversation_history, Msg(SystemId, "system", Greeting))
  /\ pc' = [pc EXCEPT ![r] = "check_assistant"]
  /\ UNCHANGED <<access_token, token_lock, user_message, new_id, payload, token, sent, attempts,
                 fails, delays, acquired, last_body, reply, response,
                 outcome>>

(* ---- chat_route, lines 281-288: the assistant reply ---- *)
IsNewAssistant(hist, rep) ==
  \/ hist = <<>>
  \/ Last(hist).role # "assistant"
  \/ Last(hist).content # rep

CheckAssistant(r) ==
  /\ pc[r] = "check_assistant"
  /\ pc' = [pc EXCEPT ![r] = IF IsNewAssistant(conversation_history, reply[r])
                              THEN "append_assistant" ELSE "respond"]
  /\ UNCHANGED <<conversation_history, access_token, token_lock, user_message, new_id, payload, token,
                 sent, attempts, fails, delays, acquired, last_body, reply, response,
                 outcome>>

AppendAssistant(r) ==
  /\ pc[r] = "append_assistant"
  /\ conversation_history' =
       Append(conversation_history,
              Msg(AssistantId(Len(conversation_history) + 1), "assistant", reply[r]))
  /\ pc' = [pc EXCEPT ![r] = "respond"]
  /\ UNCHANGED <<access_token, token_lock, user_message, new_id, payload, token, sent, attempts,
                 fails, delays, acquired, last_body, reply, response,
                 outcome>>

(* ---- chat_route, line 291: jsonify ---- *)
Respond(r) ==
  /\ pc[r] = "respond"
  /\ response' = [response EXCEPT ![r] =
       [status |-> 200, reply |-> reply[r], conversation_history |-> conversation_history]]
  /\ pc' = [pc EXCEPT ![r] = "done"]
  \* chat_route returns: its locals are gone; user_message and new_id stay as the
  \* record of what the request appended
  /\ payload' = [payload EXCEPT ![r] = None]
  /\ token' = [token EXCEPT ![r] = NoToken]
  /\ sent' = [sent EXCEPT ![r] = None]
  /\ attempts' = [attempts EXCEPT ![r] = 0]
  /\ fails' = [fails EXCEPT ![r] = 0]
  /\ delays' = [delays EXCEPT ![r] = 0]
  /\ acquired' = [acquired EXCEPT ![r] = 0]
  /\ last_body' = [last_body EXCEPT ![r] = None]
  /\ reply' = [reply EXCEPT ![r] = None]
  /\ outcome' = [outcome EXCEPT ![r] = None]
  /\ UNCHANGED <<conversation_history, access_token, token_lock, user_message, new_id>>

Step(r, limit, serial) ==
  \/ Receive(r, serial)
  \/ AppendUser(r)
  \/ AppendDefault(r)
  \/ BuildPayload(r)
  \/ LockForLookup(r)
  \/ LookupToken(r)
  \/ AcquireOk(r)
  \/ AcquireFail(r)
  \/ LockForStore(r)
  \/ StoreToken(r)
  \/ Send(r)
  \/ RecvFail(r, limit)
  \/ Recv200(r, limit)
  \/ Sleep(r)
  \/ CheckSystem(r)
  \/ AppendSystem(r)
  \/ CheckAssistant(r)
  \/ AppendAssistant(r)
  \/ Respond(r)

(* requests served by concurrent threads *)
Next == \E r \in Req : Step(r, MaxFail, FALSE)

Spec == Init /\ [][Next]_vars

(* requests served one at a time: a request starts when no other is in progress *)
NextSeq == \E r \in Req : Step(r, MaxRetry, TRUE)

SpecSeq == Init /\ [][NextSeq]_vars

(* concurrent threads against an upstream that never fails and always answers
   with the list it was sent extended by one assistant message *)
StepEcho(r) ==
  \/ Receive(r, FALSE)
  \/ AppendUser(r)
  \/ AppendDefault(r)
  \/ BuildPayload(r)
  \/ LockForLookup(r)
  \/ LookupToken(r)
  \/ AcquireOk(r)
  \/ AcquireFail(r)
  \/ LockForStore(r)
  \/ StoreToken(r)
  \/ Send(r)
  \/ RecvEcho(r)
  \/ CheckSystem(r)
  \/ AppendSystem(r)
  \/ CheckAssistant(r)
  \/ AppendAssistant(r)
  \/ Respond(r)

NextEcho == \E r \in Req : StepEcho(r)

SpecEcho == Init /\ [][NextEcho]_vars

(***************************************************************************)
(* Properties                                                              *)
(***************************************************************************)
AfterCall == {"check_system", "append_system", "check_assistant", "append_assistant",
              "respond"}

SystemCount(hist) == Cardinality({i \in 1..Len(hist) : hist[i].role = "system"})

EndsWithDuplicateAssistant(hist) ==
  /\ Len(hist) >= 2
  /\ hist[Len(hist)].role = "assistant"
  /\ hist[Len(hist) - 1].role = "assistant"
  /\ hist[Len(hist)].content = hist[Len(hist) - 1].content

(* the call of request r returns in this step, on the 200 body last_body'[r] *)
CallReturns(r) == pc[r] = "wait" /\ pc'[r] = "check_system"

(* C1: when the upstream answers 200 with chatHistory.messages = [], the call
   returns the placeholder reply and conversation_history is what it was before
   the call's attempt: it is not overwritten to empty. *)
C1_EmptyMessagesKeepHistory ==
  [][\A r \in Req :
       (CallReturns(r) /\ last_body'[r].has /\ last_body'[r].iterable
          /\ last_body'[r].messages = <<>>)
         => (reply'[r] = NoMessagesReply /\ conversation_history' = conversation_history)]_vars

(* C2: with requests served one at a time, when the call returned on a non-empty
   list L ending in an assistant message with content X, conversation_history
   at completion is L, or L followed by one system message; no further
   assistant message X is appended. *)
C2_HistoryIsUpstreamListPlusSystem ==
  \A r \in Req :
    (pc[r] = "respond" /\ last_body[r].has /\ last_body[r].messages # <<>>
       /\ Last(last_body[r].messages).role = "assistant")
      => LET L == last_body[r].messages
         IN \/ conversation_history = L
            \/ /\ Len(conversation_history) = Len(L) + 1
               /\ SubSeq(conversation_history, 1, Len(L)) = L
               /\ Last(conversation_history).role = "system"

(* C3: under any interleaving, the assistant-append step never produces a
   conversation_history that ends with two consecutive assistant messages
   carrying identical content. *)
C3_NoDuplicateTrailingAssistant ==
  [][\A r \in Req :
       (pc[r] = "append_assistant" /\ pc'[r] = "respond")
         => ~EndsWithDuplicateAssistant(conversation_history')]_vars

(* C4: under any interleaving, the system-preamble step never raises the number
   of role=system messages in conversation_history above one. *)
C4_AtMostOneSystemAppended ==
  [][\A r \in Req :
       (pc[r] = "append_system" /\ pc'[r] = "check_assistant")
         => SystemCount(conversation_history') <= 1]_vars

(* C5 (as stated): once a token is stored in the slot, the slot keeps that same
   token and get_access_token is not invoked again by any request. *)
C5_TokenNeverReacquired ==
  [][access_token # NoToken
       => /\ access_token' = access_token
          /\ \A r \in Req : acquired'[r] # acquired[r] + 1]_vars

(* C5 (amended): once a token is stored the slot never becomes empty again,
   every lookup made while the slot is filled returns the token then in the
   slot and skips get_access_token, and get_access_token is invoked only by a
   request whose own lookup found the slot empty. *)
C5_CachedTokenReused ==
  [][/\ access_token # NoToken => access_token' # NoToken
     /\ \A r \in Req :
          /\ (pc[r] = "lookup" /\ pc'[r] # "lookup" /\ access_token # NoToken)
               => (token'[r] = access_token /\ pc'[r] = "send"
                     /\ acquired'[r] = acquired[r])
          /\ acquired'[r] = acquired[r] + 1 => token[r] = NoToken]_vars

C5_Witness ==
  \E r \in Req : /\ pc[r] = "send" /\ attempts[r] = 0 /\ acquired[r] = 0
                 /\ token[r] # NoToken /\ token[r] = access_token

(* C6: a call whose upstream fails n times (non-200, exception, unparseable
   body) and then answers 200 with a reply returns that reply after exactly n
   failed attempts and n retry delays, and no exception reaches the caller. *)
C6_RetryUntilReply ==
  \A r \in Req :
    /\ pc[r] = "send" => (attempts[r] = fails[r] /\ delays[r] = fails[r])
    /\ pc[r] = "wait" => (attempts[r] = fails[r] + 1 /\ delays[r] = fails[r])
    /\ pc[r] = "sleep" => (attempts[r] = fails[r] /\ delays[r] + 1 = fails[r])
    /\ pc[r] \in AfterCall
         => /\ attempts[r] = fails[r] + 1
            /\ delays[r] = fails[r]
            /\ reply[r] # None
            /\ last_body[r].messages # <<>> => reply[r] = Last(last_body[r].messages).content
            /\ last_body[r].messages = <<>> => reply[r] = NoMessagesReply
    /\ pc[r] = "failed" => attempts[r] = 0

C6_Witness ==
  \E r \in Req : /\ pc[r] = "check_system" /\ fails[r] = MaxRetry /\ delays[r] = MaxRetry
                 /\ attempts[r] = MaxRetry + 1 /\ reply[r] = "X"

(* C7: every invocation of get_access_token is made with no token in hand and
   either yields a token to store or fails the request at once: the request
   ends with the error after that single attempt, it never calls the upstream,
   and it leaves the access_token slot as it was. *)
C7_AuthFailurePropagates ==
  [][\A r \in Req :
       /\ acquired'[r] = acquired[r] + 1
            => /\ token[r] = NoToken /\ acquired[r] = 0
               /\ \/ pc'[r] = "lock_store" /\ token'[r] # NoToken
                  \/ /\ pc'[r] = "failed" /\ response'[r].status = 500
                     /\ attempts'[r] = 0
                     /\ access_token' = access_token
       /\ pc[r] = "failed"
            => (pc'[r] = "failed" /\ attempts'[r] = 0 /\ acquired'[r] = 1
                  /\ response'[r] = response[r])]_vars

C7_Witness ==
  \E r \in Req : /\ pc[r] = "failed" /\ acquired[r] = 1 /\ attempts[r] = 0
                 /\ access_token = NoToken /\ response[r].status = 500

(* C8: a request with an empty message appends the user message "123" exactly
   when conversation_history is empty as it checks; otherwise it appends no
   user message; the payload it builds carries Search = "123". *)
C8_DefaultOnlyWhenEmpty ==
  [][\A r \in Req :
       /\ (pc[r] = "idle" /\ pc'[r] # "idle" /\ user_message'[r] = "")
            => /\ pc'[r] = "append_default" <=> conversation_history = <<>>
               /\ pc'[r] # "append_default" => pc'[r] = "build"
               /\ conversation_history' = conversation_history
       /\ (pc[r] = "append_default" /\ pc'[r] # pc[r])
            => /\ Len(conversation_history') = Len(conversation_history) + 1
               /\ Last(conversation_history').role = "user"
               /\ Last(conversation_history').content = DefaultSearch
               /\ pc'[r] = "build"
       /\ (pc[r] = "build" /\ pc'[r] # pc[r])
            => /\ conversation_history' = conversation_history
               /\ payload'[r].Search = DefaultSearch]_vars

C8_Witness ==
  \E r, q \in Req :
    /\ pc[r] = "lock_lookup" /\ user_message[r] = DefaultSearch
    /\ payload[r].Search = DefaultSearch
    /\ pc[q] = "lock_lookup" /\ user_message[q] = ""
    /\ Len(conversation_history) = 1

(* C9: when the call returned on a non-empty list whose last message has
   content X, the JSON response has reply = X and its conversation_history
   ends with an assistant message with content X. *)
C9_ResponseEndsWithReply ==
  [][\A r \in Req :
       (pc[r] = "respond" /\ pc'[r] = "done"
          /\ last_body[r].has /\ last_body[r].messages # <<>>)
         => LET X == Last(last_body[r].messages).content
                h == response'[r].conversation_history
            IN /\ response'[r].reply = X
               /\ h # <<>>
               /\ Last(h).role = "assistant"
               /\ Last(h).content = X]_vars

(* C10: every attempt of one call_chat_api call sends the same message list,
   the snapshot of conversation_history taken when the payload was built. *)
C10_AttemptsSendSameList ==
  [][\A r \in Req :
       (pc[r] = "send" /\ pc'[r] = "wait" /\ attempts[r] > 0)
         => sent'[r] = sent[r]]_vars

(* ids the program assigned itself (the upstream's own ids are not modelled) *)
LocalIdsDistinct(hist) ==
  \A i, j \in 1..Len(hist) :
    (i < j /\ hist[i].id # UpId /\ hist[j].id # UpId) => hist[i].id # hist[j].id

(* C11: under any interleaving the ids of the messages in conversation_history
   are pairwise distinct, and a user message appended when the store holds n
   messages gets the id user-{n+1}. *)
C11_IdsDistinct ==
  [][/\ LocalIdsDistinct(conversation_history')
     /\ \A r \in Req :
          (pc[r] \in {"append_user", "append_default"} /\ pc'[r] = "build")
            => Last(conversation_history').id = UserId(Len(conversation_history) + 1)]_vars

(* C12: under any interleaving, the conversation_history returned by a request
   that completes successfully contains a message with role system. *)
C12_ResponseHasSystem ==
  \A r \in Req : pc[r] = "done" => HasSystem(response[r].conversation_history)

InRetryLoop == {"send", "wait", "sleep"}

(* C13: the retry loop has no attempt limit: whatever the number of failed
   attempts so far, an attempt that yields no reply is followed by the delay
   and then by the next attempt; the call leaves the loop only by returning a
   reply, so it neither returns nor raises while the upstream gives none. *)
C13_RetriesWithoutLimit ==
  [][\A r \in Req :
       /\ (pc[r] = "wait" /\ pc'[r] # "wait")
            => IF reply'[r] = None
               THEN pc'[r] = "sleep" /\ fails'[r] = fails[r] + 1
               ELSE pc'[r] = "check_system"
       /\ (pc[r] = "sleep" /\ pc'[r] # "sleep")
            => (pc'[r] = "send" /\ delays'[r] = delays[r] + 1 /\ reply'[r] = None)
       /\ (pc[r] = "send" /\ pc'[r] # "send")
            => (pc'[r] = "wait" /\ attempts'[r] = attempts[r] + 1 /\ reply'[r] = None)
       /\ (pc[r] \in InRetryLoop /\ pc'[r] \notin InRetryLoop) => reply'[r] # None]_vars

C13_Witness ==
  \E r \in Req : /\ pc[r] = "wait" /\ attempts[r] = MaxRetry + 1
                 /\ fails[r] = MaxRetry /\ delays[r] = MaxRetry /\ reply[r] = None

(* the attempt of request r ends in this step with a non-200 status or an exception *)
AttemptEndsInError(r) == pc[r] = "wait" /\ pc'[r] # "wait" /\ outcome'[r] \in FailKinds

(* C14 (as stated): an attempt that ends in a non-200 status or in an exception
   changes neither conversation_history nor the payload and is followed by
   another attempt. *)
C14_ErrorAlwaysRetried ==
  [][\A r \in Req :
       AttemptEndsInError(r)
         => /\ conversation_history' = conversation_history
            /\ payload'[r] = payload[r]
            /\ pc'[r] = "sleep"]_vars

(* C14 (amended): such an attempt changes neither conversation_history nor the
   payload, and it is followed by another attempt whenever it left reply unset;
   the one attempt that ends in an exception with reply set is a 200 whose
   chatHistory.messages is no iterable (JSON null): the call then returns the
   placeholder reply. *)
C14_ErrorLeavesStateAndRetriesIfNoReply ==
  [][\A r \in Req :
       AttemptEndsInError(r)
         => /\ conversation_history' = conversation_history
            /\ payload'[r] = payload[r]
            /\ IF reply'[r] = None
               THEN pc'[r] = "sleep"
               ELSE /\ pc'[r] = "check_system"
                    /\ reply'[r] = NoMessagesReply
                    /\ OverwriteRaises(last_body'[r])]_vars

C14_Witness ==
  \E r \in Req : /\ pc[r] = "check_system" /\ outcome[r] = "exception"
                 /\ fails[r] >= 1 /\ delays[r] >= 1
                 /\ reply[r] = NoMessagesReply /\ conversation_history # <<>>

UnderLock == {"lookup", "store"}

(* C15: token_lock is held exactly while a request reads or writes the
   access_token slot: never during credential acquisition, the upstream call
   or a retry delay, so a request in the retry loop never keeps another from
   reading the cached token. *)
C15_LockOnlyAroundSlot ==
  /\ token_lock \in {Free} \cup Req
  /\ \A r \in Req : token_lock = r <=> pc[r] \in UnderLock

C15_Witness ==
  \E r, q \in Req :
    /\ pc[r] = "sleep" /\ token_lock = q /\ pc[q] = "lookup" /\ access_token # NoToken

(* C16: the access_token slot is either empty or holds a whole token returned
   by a successful acquisition; it changes only by a write made under
   token_lock, and once non-empty it never becomes empty again, even when two
   requests both saw it empty and both acquired a token. *)
C16_SlotWrittenWholeUnderLock ==
  [][/\ access_token' \in {NoToken} \cup {IssuedToken(r) : r \in Req}
     /\ access_token # NoToken => access_token' # NoToken
     /\ access_token' # access_token
          => \E r \in Req : /\ token_lock = r /\ pc[r] = "store" /\ pc'[r] = "send"
                            /\ acquired[r] = 1 /\ token[r] = IssuedToken(r)
                            /\ access_token' = token[r]]_vars

C16_Witness ==
  \E r, q \in Req :
    /\ r # q /\ acquired[r] = 1 /\ acquired[q] = 1
    /\ access_token = IssuedToken(q) /\ pc[r] = "store" /\ token_lock = r

InHistory(m, hist) == \E i \in 1..Len(hist) : hist[i] = m
AppendedUserMessage(r) == Msg(new_id[r], "user", user_message[r])

(* a step of r on a failure path: a failed attempt, the delay before the retry,
   the retry's re-send, or the auth abort *)
FailurePathStep(r) ==
  \/ pc[r] = "wait" /\ pc'[r] = "sleep" /\ outcome'[r] \in FailKinds
  \/ pc[r] = "sleep" /\ pc'[r] = "send"
  \/ pc[r] = "send" /\ pc'[r] = "wait" /\ attempts[r] >= 1
  \/ pc[r] = "acquire" /\ pc'[r] = "failed"

(* C17: no rollback: a failed attempt of the upstream call, the wait before the
   retry, the retry itself and the abort on an auth error all leave
   conversation_history as it was, so the user message the request appended
   before the call stays in it. *)
C17_NoRollback ==
  [][\A r \in Req :
       FailurePathStep(r) =>
         /\ conversation_history' = conversation_history
         /\ InHistory(AppendedUserMessage(r), conversation_history)
              => InHistory(AppendedUserMessage(r), conversation_history')]_vars

C17_Witness ==
  \E r, q \in Req :
    /\ pc[r] = "failed" /\ user_message[r] # ""
    /\ InHistory(AppendedUserMessage(r), conversation_history)
    /\ pc[q] = "wait" /\ fails[q] >= 1 /\ attempts[q] >= 2 /\ user_message[q] # ""
    /\ InHistory(AppendedUserMessage(q), conversation_history)

(* C18: within one call_chat_api call an attempt that is followed by a retry
   (the call goes on to the sleep of line 127) leaves conversation_history
   unchanged; the list is overwritten only by the attempt whose reply the call
   returns. *)
C18_RetriedAttemptLeavesHistory ==
  [][\A r \in Req :
       pc[r] = "wait" /\ pc'[r] = "sleep"
         => conversation_history' = conversation_history]_vars

(* C19: with an upstream that answers every attempt with the list it was sent
   plus one assistant message, no user message is lost under any interleaving
   of the requests: the message a completed request appended is in the history
   that request returned, and is in conversation_history once every request
   has completed. *)
C19_NoUserMessageLost ==
  \A r \in Req :
    pc[r] = "done" /\ user_message[r] # ""
      => /\ InHistory(AppendedUserMessage(r), response[r].conversation_history)
         /\ (\A q \in Req : pc[q] = "done")
              => InHistory(AppendedUserMessage(r), conversation_history)

====
